---- MODULE Spec2Model ----
(***************************************************************************)
(* Model of node/InspectHTTPDomain.js: the registry of per-root static     *)
(* HTTP servers (_servers), the getServer / closeServer command handlers,  *)
(* the asynchronous continuations of server start-up (listen callback,     *)
(* warm-up GET) and shutdown (close callback), the external-address        *)
(* enumeration and the subnet filter applied to every inbound request.     *)
(*                                                                         *)
(* JavaScript strings are modelled as sequences of characters, so that     *)
(* split("."), slice(0, -1) and index comparisons are computed as the code *)
(* computes them.                                                          *)
(***************************************************************************)
EXTENDS Integers, Sequences, FiniteSets, TLC

VARIABLES
    interfaces,         \* what os.networkInterfaces() returned at line 76
    _servers,           \* the map from path keys to {server, address}
    httpServers,        \* the http.Server objects created at line 143
    calls,              \* the command invocations and their callbacks
    history,            \* per key: the addresses delivered and the closes, in order
    response            \* the last HTTP response produced by a server

vars == <<interfaces, _servers, httpServers, calls, history, response>>

----------------------------------------------------------------------------
(* Bounds *)

MaxCalls == 3
MaxServers == 2
MaxPort == 2
MaxIfaces == 2
MaxAddrs == 2

----------------------------------------------------------------------------
(* JavaScript values *)

Null == [type |-> "null"]
Undefined == [type |-> "undefined"]
JSString(s) == [type |-> "string", val |-> s]
JSBoolean(b) == [type |-> "boolean", val |-> b]
JSObject(o) == [type |-> "object", val |-> o]

\* truthiness of a value used as a condition (if (err), path && ...)
Truthy(v) ==
    CASE v.type = "null" -> FALSE
      [] v.type = "undefined" -> FALSE
      [] v.type = "string" -> Len(v.val) > 0
      [] v.type = "boolean" -> v.val
      [] OTHER -> TRUE

\* String.prototype.split with a one-character separator
RECURSIVE SplitFrom(_, _, _, _)
SplitFrom(s, sep, i, cur) ==
    IF i > Len(s) THEN <<cur>>
    ELSE IF s[i] = sep THEN <<cur>> \o SplitFrom(s, sep, i + 1, <<>>)
    ELSE SplitFrom(s, sep, i + 1, Append(cur, s[i]))

Split(s, sep) == SplitFrom(s, sep, 1, <<>>)

\* arr[i] with a zero-based index: undefined when out of range
At(arr, i) == IF i + 1 <= Len(arr) THEN JSString(arr[i + 1]) ELSE Undefined

\* the === comparison of two values that are strings or undefined
StrictEq(a, b) ==
    /\ a.type = b.type
    /\ (a.type = "string" => a.val = b.val)

\* the !== comparison of an array element with a string literal
StrictNeq(a, lit) == ~StrictEq(a, JSString(lit))

----------------------------------------------------------------------------
(* Paths and keys *)

PATH_KEY_PREFIX == <<"edge-code-inspect-">>

\* line 52 returning the path as given
normalizeRootPath_NoStrip(path) == path

normalizeRootPath(path) ==
    IF Len(path) > 0 /\ path[Len(path)] = "/"
    THEN SubSeq(path, 1, Len(path) - 1)
    ELSE path

getPathKey(path) == PATH_KEY_PREFIX \o normalizeRootPath(path)

PathA == <<"/", "a">>
PathASlash == <<"/", "a", "/">>
PathB == <<"/", "b">>

Paths == {PathA, PathASlash, PathB}

Keys == {getPathKey(p) : p \in Paths}

----------------------------------------------------------------------------
(* Network addresses, as the strings node reports them *)

Addr_10_0_1_5 == <<"1", "0", ".", "0", ".", "1", ".", "5">>
Addr_10_0_1_42 == <<"1", "0", ".", "0", ".", "1", ".", "4", "2">>
Addr_10_0_2_42 == <<"1", "0", ".", "0", ".", "2", ".", "4", "2">>
Addr_10_1_1_5 == <<"1", "0", ".", "1", ".", "1", ".", "5">>
Addr_11_0_1_5 == <<"1", "1", ".", "0", ".", "1", ".", "5">>
Addr_10_254_0_7 == <<"1", "0", ".", "2", "5", "4", ".", "0", ".", "7">>
Addr_10_254_0_9 == <<"1", "0", ".", "2", "5", "4", ".", "0", ".", "9">>
Addr_169_254_3_4 == <<"1", "6", "9", ".", "2", "5", "4", ".", "3", ".", "4">>
Addr_169_1_2_3 == <<"1", "6", "9", ".", "1", ".", "2", ".", "3">>
Addr_127_0_0_1 == <<"1", "2", "7", ".", "0", ".", "0", ".", "1">>
Addr_fe80 == <<"f", "e", "8", "0", ":", ":", "1">>
Addr_mapped == <<":", ":", "f", "f", "f", "f", ":", "1", "0", ".", "0", ".", "1", ".", "5">>
Addr_10_0 == <<"1", "0", ".", "0">>
Addr_empty == <<>>

\* one entry of an interface's address list (os.networkInterfaces())
IfAddr(family, internal, address) ==
    [family |-> family, internal |-> internal, address |-> address]

Loopback == IfAddr("IPv4", TRUE, Addr_127_0_0_1)
LanAddr == IfAddr("IPv4", FALSE, Addr_10_0_1_5)
LinkLocalAddr == IfAddr("IPv4", FALSE, Addr_169_254_3_4)
V6Addr == IfAddr("IPv6", FALSE, Addr_fe80)
Second254Addr == IfAddr("IPv4", FALSE, Addr_10_254_0_7)
First169Addr == IfAddr("IPv4", FALSE, Addr_169_1_2_3)

IfAddrs == {Loopback, LanAddr, LinkLocalAddr, V6Addr, Second254Addr, First169Addr}

\* sequences over S of length at most n
SeqsUpTo(S, n) == UNION {[1..k -> S] : k \in 0..n}

\* every interface table the bounds allow: a list of interfaces (in key
\* order), each a list of addresses
InterfaceTables == SeqsUpTo(SeqsUpTo(IfAddrs, MaxAddrs), MaxIfaces)

\* the interface tables the server life-cycle is explored under
NetConfigs ==
    { <<<<Loopback>>, <<LinkLocalAddr>>>>,
      <<<<Loopback>>, <<LanAddr>>>> }

----------------------------------------------------------------------------
(* getExternalAddresses, lines 75-91 *)

\* lines 81-83 with the test of addr.internal left out
IsExternal_IgnoreInternal(addr) ==
    /\ addr.family = "IPv4"
    /\ LET octets == Split(addr.address, ".")
       IN  StrictNeq(At(octets, 0), <<"1", "6", "9">>)
             /\ StrictNeq(At(octets, 1), <<"2", "5", "4">>)

\* the test of lines 81-83 on one address entry
IsExternal(addr) ==
    /\ addr.family = "IPv4"
    /\ ~addr.internal
    /\ LET octets == Split(addr.address, ".")
       IN  StrictNeq(At(octets, 0), <<"1", "6", "9">>)
             /\ StrictNeq(At(octets, 1), <<"2", "5", "4">>)

\* interfaces[k].forEach: push the addresses that pass, in order
RECURSIVE PushExternal(_, _)
PushExternal(addrs, acc) ==
    IF addrs = <<>> THEN acc
    ELSE PushExternal(Tail(addrs),
                      IF IsExternal(Head(addrs))
                      THEN Append(acc, Head(addrs).address)
                      ELSE acc)

\* Object.keys(interfaces).forEach
RECURSIVE EachInterface(_, _)
EachInterface(ifs, acc) ==
    IF ifs = <<>> THEN acc
    ELSE EachInterface(Tail(ifs), PushExternal(Head(ifs), acc))

getExternalAddresses(ifs) == EachInterface(ifs, <<>>)

----------------------------------------------------------------------------
(* The state of the module *)

Ports == 1..MaxPort
ServerIds == 1..MaxServers

ERR_NO_ADDRESS == JSString(<<"Could not find an external IP address">>)
ERR_NO_ROOT == JSString(<<"Could not GET root after launching server">>)

\* an http.Server that has not been created yet; connected tells whether
\* any client connection to the server is open
NoServer ==
    [state |-> "none", root |-> <<>>, host |-> <<>>, port |-> 0,
     probe |-> "none", connected |-> FALSE]

NoEntry == [type |-> "undefined"]

\* the value stored at line 181
Entry(server, address) ==
    [type |-> "object", server |-> server, address |-> address]

\* the object literal of lines 150-151
AddressOf(host, port) == [address |-> host, port |-> port]

NoResponse == [statusCode |-> 0]

\* the events recorded per key: an address handed to a getServer callback
\* (lines 175 and 182), and an entry removed by closeServer (line 204)
Delivered(server, address) ==
    [ev |-> "delivered", server |-> server, address |-> address]
Closed(server, address) ==
    [ev |-> "closed", server |-> server, address |-> address]

\* one command invocation: cb counts the calls of its callback, err and res
\* are the callback's arguments, server is the http.Server it created or
\* closed (0 when none), prior is the history of its key when it was
\* issued, and found tells whether it saw an entry for its key
Call(cmd, path, status, err, res, cb, server, prior, found) ==
    [cmd |-> cmd, path |-> path, status |-> status, err |-> err, res |-> res,
     cb |-> cb, server |-> server, prior |-> prior, found |-> found]

\* the ports held by a socket that has not been released
PortsInUse ==
    {httpServers[i].port : i \in {j \in ServerIds :
                                    httpServers[j].state \in {"listening", "closing"}}}

\* the number of http.Server objects created so far (line 143)
Created == Cardinality({i \in ServerIds : httpServers[i].state # "none"})

\* the getServer invocation whose _createServer made server id
CreatorOf(id) ==
    CHOOSE c \in 1..Len(calls) :
        calls[c].cmd = "getServer" /\ calls[c].server = id

\* the ports the operating system has handed out so far
PortsUsed ==
    {httpServers[i].port : i \in {j \in ServerIds : httpServers[j].port # 0}}

\* the ports listen(0) may be given: any port no socket holds. A port never
\* handed out before is named by the lowest unused number, since the program
\* reads a port only to pass it on and to connect to it.
AssignablePorts ==
    {p \in Ports \ PortsInUse : \A q \in 1..(p - 1) : q \in PortsUsed}

TypeOK ==
    /\ interfaces \in InterfaceTables
    /\ DOMAIN _servers = Keys
    /\ DOMAIN httpServers = ServerIds
    /\ Len(calls) <= MaxCalls
    /\ DOMAIN history = Keys

Init ==
    /\ interfaces = <<>>
    /\ _servers = [k \in Keys |-> NoEntry]
    /\ httpServers = [i \in ServerIds |-> NoServer]
    /\ calls = <<>>
    /\ history = [k \in Keys |-> <<>>]
    /\ response = NoResponse

----------------------------------------------------------------------------
(* _cmdGetServer and _createServer, lines 171-186 and 130-155 *)

\* line 174: an entry exists; line 175 answers from it
GetServerExisting(path) ==
    LET pathKey == getPathKey(path) IN
    /\ Len(calls) < MaxCalls
    /\ Truthy(_servers[pathKey])
    /\ calls' = Append(calls,
                       Call("getServer", path, "done", Null,
                            JSObject(_servers[pathKey].address), 1, 0,
                            history[pathKey], TRUE))
    /\ history' = [history EXCEPT
                     ![pathKey] = Append(@, Delivered(_servers[pathKey].server,
                                                      _servers[pathKey].address))]
    /\ UNCHANGED <<interfaces, _servers, httpServers, response>>

\* lines 130-133: no entry, and no external address among the interfaces ifs
\* that os.networkInterfaces() reports to this call
GetServerNoAddress(path, ifs) ==
    LET pathKey == getPathKey(path)
        externalAddresses == getExternalAddresses(ifs) IN
    /\ Len(calls) < MaxCalls
    /\ ~Truthy(_servers[pathKey])
    /\ Len(externalAddresses) = 0
    /\ interfaces' = ifs
    /\ calls' = Append(calls,
                       Call("getServer", path, "done", ERR_NO_ADDRESS, Null,
                            1, 0, history[pathKey], FALSE))
    /\ UNCHANGED <<_servers, httpServers, history, response>>

\* lines 135-144 made to wait until no other invocation is outstanding, as
\* under a lock held across the warm-up GET and the close
GetServerCreate_Blocking(path, ifs) ==
    LET pathKey == getPathKey(path)
        externalAddresses == getExternalAddresses(ifs)
        id == Created + 1 IN
    /\ \A c \in 1..Len(calls) : calls[c].status = "done"
    /\ Len(calls) < MaxCalls
    /\ Created < MaxServers
    /\ ~Truthy(_servers[pathKey])
    /\ Len(externalAddresses) # 0
    /\ interfaces' = ifs
    /\ httpServers' = [httpServers EXCEPT
                         ![id] = [state |-> "binding", root |-> path,
                                  host |-> externalAddresses[1], port |-> 0,
                                  probe |-> "none", connected |-> FALSE]]
    /\ calls' = Append(calls,
                       Call("getServer", path, "pending", Undefined, Undefined,
                            0, id, history[pathKey], FALSE))
    /\ UNCHANGED <<_servers, history, response>>

\* lines 135-144: no entry; a server is created for the first external
\* address and told to listen
GetServerCreate(path, ifs) ==
    LET pathKey == getPathKey(path)
        externalAddresses == getExternalAddresses(ifs)
        id == Created + 1 IN
    /\ Len(calls) < MaxCalls
    /\ Created < MaxServers
    /\ ~Truthy(_servers[pathKey])
    /\ Len(externalAddresses) # 0
    /\ interfaces' = ifs
    /\ httpServers' = [httpServers EXCEPT
                         ![id] = [state |-> "binding", root |-> path,
                                  host |-> externalAddresses[1], port |-> 0,
                                  probe |-> "none", connected |-> FALSE]]
    /\ calls' = Append(calls,
                       Call("getServer", path, "pending", Undefined, Undefined,
                            0, id, history[pathKey], FALSE))
    /\ UNCHANGED <<_servers, history, response>>

GetServer(path, ifs) ==
    \/ GetServerExisting(path)
    \/ GetServerNoAddress(path, ifs)
    \/ GetServerCreate(path, ifs)

\* the listen callback of line 144: the port is assigned, and requestRoot
\* (lines 93-106) sends the warm-up GET
Listening(id) ==
    /\ httpServers[id].state = "binding"
    /\ \E port \in AssignablePorts :
         httpServers' = [httpServers EXCEPT
                           ![id].state = "listening",
                           ![id].port = port,
                           ![id].probe = "sent"]
    /\ UNCHANGED <<interfaces, _servers, calls, history, response>>

\* lines 99-101, 149-152 and 180-182: the warm-up GET got a response
ProbeResponse(id) ==
    LET c == CreatorOf(id)
        pathKey == getPathKey(calls[c].path)
        address == AddressOf(httpServers[id].host, httpServers[id].port) IN
    /\ httpServers[id].probe = "sent"
    /\ httpServers' = [httpServers EXCEPT ![id].probe = "response"]
    /\ _servers' = [_servers EXCEPT ![pathKey] = Entry(id, address)]
    /\ calls' = [calls EXCEPT
                   ![c].status = "done",
                   ![c].err = Null,
                   ![c].res = JSObject(address),
                   ![c].cb = @ + 1]
    /\ history' = [history EXCEPT ![pathKey] = Append(@, Delivered(id, address))]
    /\ UNCHANGED <<interfaces, response>>

\* lines 103-105 and 147-148 with the call of createCompleteCallback missing
ProbeError_NoCallback(id) ==
    /\ httpServers[id].probe = "sent"
    /\ httpServers' = [httpServers EXCEPT ![id].probe = "error"]
    /\ UNCHANGED <<interfaces, _servers, calls, history, response>>

\* lines 103-105 and 147-152 without the test of err at line 147: the
\* address is built and registered although the warm-up GET failed
ProbeError_Registers(id) ==
    LET c == CreatorOf(id)
        pathKey == getPathKey(calls[c].path)
        address == AddressOf(httpServers[id].host, httpServers[id].port) IN
    /\ httpServers[id].probe = "sent"
    /\ httpServers' = [httpServers EXCEPT ![id].probe = "error"]
    /\ _servers' = [_servers EXCEPT ![pathKey] = Entry(id, address)]
    /\ calls' = [calls EXCEPT
                   ![c].status = "done",
                   ![c].err = Null,
                   ![c].res = JSObject(address),
                   ![c].cb = @ + 1]
    /\ history' = [history EXCEPT ![pathKey] = Append(@, Delivered(id, address))]
    /\ UNCHANGED <<interfaces, response>>

\* lines 103-105, 147-148 and 178-179: the warm-up GET failed
ProbeError(id) ==
    LET c == CreatorOf(id) IN
    /\ httpServers[id].probe = "sent"
    /\ httpServers' = [httpServers EXCEPT ![id].probe = "error"]
    /\ calls' = [calls EXCEPT
                   ![c].status = "done",
                   ![c].err = ERR_NO_ROOT,
                   ![c].res = Null,
                   ![c].cb = @ + 1]
    /\ UNCHANGED <<interfaces, _servers, history, response>>

----------------------------------------------------------------------------
(* _cmdCloseServer, lines 200-211 *)

\* lines 202-205 without the delete of line 204: the entry stays while the
\* server is told to close
CloseServerExisting_NoDelete(path) ==
    LET pathKey == getPathKey(path)
        serverToClose == _servers[pathKey].server IN
    /\ Len(calls) < MaxCalls
    /\ Truthy(_servers[pathKey])
    /\ httpServers' = [httpServers EXCEPT ![serverToClose].state = "closing"]
    /\ calls' = Append(calls,
                       Call("closeServer", path, "pending", Undefined, Undefined,
                            0, serverToClose, history[pathKey], TRUE))
    /\ history' = [history EXCEPT
                     ![pathKey] = Append(@, Closed(serverToClose,
                                                   _servers[pathKey].address))]
    /\ UNCHANGED <<interfaces, _servers, response>>

\* lines 202-205: the entry is deleted and the server told to close
CloseServerExisting(path) ==
    LET pathKey == getPathKey(path)
        serverToClose == _servers[pathKey].server IN
    /\ Len(calls) < MaxCalls
    /\ Truthy(_servers[pathKey])
    /\ _servers' = [_servers EXCEPT ![pathKey] = NoEntry]
    /\ httpServers' = [httpServers EXCEPT ![serverToClose].state = "closing"]
    /\ calls' = Append(calls,
                       Call("closeServer", path, "pending", Undefined, Undefined,
                            0, serverToClose, history[pathKey], TRUE))
    /\ history' = [history EXCEPT
                     ![pathKey] = Append(@, Closed(serverToClose,
                                                   _servers[pathKey].address))]
    /\ UNCHANGED <<interfaces, response>>

\* lines 208-209: no entry
CloseServerMissing(path) ==
    LET pathKey == getPathKey(path) IN
    /\ Len(calls) < MaxCalls
    /\ ~Truthy(_servers[pathKey])
    /\ calls' = Append(calls,
                       Call("closeServer", path, "done", JSString(path), Undefined,
                            1, 0, history[pathKey], FALSE))
    /\ UNCHANGED <<interfaces, _servers, httpServers, history, response>>

CloseServer(path) ==
    \/ CloseServerExisting(path)
    \/ CloseServerMissing(path)

\* the close callback of lines 205-207: every connection of the server has
\* ended and its socket is released
ServerClosed(id) ==
    /\ httpServers[id].state = "closing"
    /\ ~httpServers[id].connected
    /\ httpServers' = [httpServers EXCEPT ![id].state = "closed"]
    /\ \E c \in 1..Len(calls) :
         /\ calls[c].cmd = "closeServer"
         /\ calls[c].server = id
         /\ calls' = [calls EXCEPT
                        ![c].status = "done",
                        ![c].err = Null,
                        ![c].res = JSString(calls[c].path),
                        ![c].cb = @ + 1]
    /\ UNCHANGED <<interfaces, _servers, history, response>>

----------------------------------------------------------------------------
(* The environment: clients and the network *)

\* a client opens a connection to a listening server that had none; clients
\* learn a server's port from the address getServer delivered (line 182)
Connect(id) ==
    /\ httpServers[id].state = "listening"
    /\ httpServers[id].probe = "response"
    /\ ~httpServers[id].connected
    /\ httpServers' = [httpServers EXCEPT ![id].connected = TRUE]
    /\ UNCHANGED <<interfaces, _servers, calls, history, response>>

\* the last client connection of a server ends
Disconnect(id) ==
    /\ httpServers[id].connected
    /\ httpServers' = [httpServers EXCEPT ![id].connected = FALSE]
    /\ UNCHANGED <<interfaces, _servers, calls, history, response>>

----------------------------------------------------------------------------
(* The request pipeline of lines 108-128 and 139-141 *)

\* what a client may have as request.connection.remoteAddress
ClientAddrs ==
    {Addr_10_0_1_5, Addr_10_0_1_42, Addr_10_0_2_42, Addr_10_1_1_5,
     Addr_11_0_1_5, Addr_10_254_0_9, Addr_mapped, Addr_10_0, Addr_fe80,
     Addr_empty}

RemoteAddresses == {JSString(a) : a \in ClientAddrs} \cup {Undefined}

\* an inbound request: the peer address of its connection, whether the file
\* it names exists under the root, and whether its body exceeds the limit
Request(remoteAddress, fileExists, tooLarge) ==
    [remoteAddress |-> remoteAddress, fileExists |-> fileExists,
     tooLarge |-> tooLarge]

\* the outcome of one middleware: it either calls next() or ends the response
CallNext == [next |-> TRUE, statusCode |-> 0, body |-> ""]
End(statusCode, body) == [next |-> FALSE, statusCode |-> statusCode, body |-> body]

\* lines 111-127 with the comparison of the third octet (line 119) left out
rejectOffSubnetRequests_TwoOctets(serverAddress, request) ==
    LET serverAddressOctets == Split(serverAddress, ".")
        clientAddress == request.remoteAddress
        clientAddressOctets == Split(clientAddress.val, ".")
    IN  IF /\ Truthy(clientAddress)
           /\ StrictEq(At(clientAddressOctets, 0), At(serverAddressOctets, 0))
           /\ StrictEq(At(clientAddressOctets, 1), At(serverAddressOctets, 1))
        THEN CallNext
        ELSE End(403, "Forbidden")

\* lines 111-127, for the serverAddress given at line 139
rejectOffSubnetRequests(serverAddress, request) ==
    LET serverAddressOctets == Split(serverAddress, ".")
        clientAddress == request.remoteAddress
        clientAddressOctets == Split(clientAddress.val, ".")
    IN  IF /\ Truthy(clientAddress)
           /\ StrictEq(At(clientAddressOctets, 0), At(serverAddressOctets, 0))
           /\ StrictEq(At(clientAddressOctets, 1), At(serverAddressOctets, 1))
           /\ StrictEq(At(clientAddressOctets, 2), At(serverAddressOctets, 2))
        THEN CallNext
        ELSE End(403, "Forbidden")

\* connect.static(path), line 140: answers with the file when there is one
static(request) ==
    IF request.fileExists THEN End(200, "file") ELSE CallNext

\* connect.limit("1mb"), line 141
limit(request) ==
    IF request.tooLarge THEN End(413, "Request Entity Too Large") ELSE CallNext

\* the stack built by the app.use calls of lines 139-141, in order
Stack == <<"rejectOffSubnetRequests", "static", "limit">>

Middleware(name, host, request) ==
    CASE name = "rejectOffSubnetRequests" -> rejectOffSubnetRequests(host, request)
      [] name = "static" -> static(request)
      [] name = "limit" -> limit(request)

\* connect's dispatch: each middleware in turn until one ends the response;
\* past the last one, connect answers 404
RECURSIVE Dispatch(_, _, _, _)
Dispatch(stack, host, request, visited) ==
    IF stack = <<>>
    THEN [statusCode |-> 404, body |-> "Cannot GET", stages |-> visited]
    ELSE LET out == Middleware(Head(stack), host, request)
             seen == Append(visited, Head(stack))
         IN  IF out.next
             THEN Dispatch(Tail(stack), host, request, seen)
             ELSE [statusCode |-> out.statusCode, body |-> out.body,
                   stages |-> seen]

\* request handling that, when it denies a request, also drops the entry of
\* the server's root
HandleRequest_Unregisters(id, request) ==
    LET out == Dispatch(Stack, httpServers[id].host, request, <<>>) IN
    /\ httpServers[id].connected
    /\ response' = [server |-> id, request |-> request,
                    statusCode |-> out.statusCode, body |-> out.body,
                    stages |-> out.stages]
    /\ _servers' = IF out.statusCode = 403
                   THEN [_servers EXCEPT
                           ![getPathKey(httpServers[id].root)] = NoEntry]
                   ELSE _servers
    /\ UNCHANGED <<interfaces, httpServers, calls, history>>

\* a request arrives on an open connection of server id
HandleRequest(id, request) ==
    LET out == Dispatch(Stack, httpServers[id].host, request, <<>>) IN
    /\ httpServers[id].connected
    /\ response' = [server |-> id, request |-> request,
                    statusCode |-> out.statusCode, body |-> out.body,
                    stages |-> out.stages]
    /\ UNCHANGED <<interfaces, _servers, httpServers, calls, history>>

Next ==
    \/ \E path \in Paths, ifs \in NetConfigs : GetServer(path, ifs)
    \/ \E path \in Paths : CloseServer(path)
    \/ \E id \in ServerIds : Listening(id)
    \/ \E id \in ServerIds : ProbeResponse(id)
    \/ \E id \in ServerIds : ProbeError(id)
    \/ \E id \in ServerIds : ServerClosed(id)
    \/ \E id \in ServerIds : Connect(id)
    \/ \E id \in ServerIds : Disconnect(id)

Spec == Init /\ [][Next]_vars

----------------------------------------------------------------------------
(* The address enumeration alone: one getServer over every interface table *)

ResolveNext ==
    /\ calls = <<>>
    /\ \E path \in Paths, ifs \in InterfaceTables :
         \/ GetServerNoAddress(path, ifs)
         \/ GetServerCreate(path, ifs)

SpecResolve == Init /\ [][ResolveNext]_vars

----------------------------------------------------------------------------
(* The request pipeline alone: requests to one advertised server *)

\* the addresses a server may be bound to
HostAddrs ==
    {Addr_10_0_1_5, Addr_10_0_1_42, Addr_10_0_2_42, Addr_10_1_1_5, Addr_11_0_1_5}

\* the state after getServer(PathA) has started a server on host and a
\* client has connected to it
InitServing ==
    \E host \in HostAddrs :
        LET ifs == <<<<Loopback>>, <<IfAddr("IPv4", FALSE, host)>>>>
            address == AddressOf(host, 1) IN
        /\ interfaces = ifs
        /\ _servers = [k \in Keys |->
                         IF k = getPathKey(PathA) THEN Entry(1, address)
                         ELSE NoEntry]
        /\ httpServers = [i \in ServerIds |->
                            IF i = 1
                            THEN [state |-> "listening", root |-> PathA,
                                  host |-> host, port |-> 1,
                                  probe |-> "response", connected |-> TRUE]
                            ELSE NoServer]
        /\ calls = <<Call("getServer", PathA, "done", Null, JSObject(address),
                          1, 1, <<>>, FALSE)>>
        /\ history = [k \in Keys |->
                        IF k = getPathKey(PathA) THEN <<Delivered(1, address)>>
                        ELSE <<>>]
        /\ response = NoResponse

ServeNext ==
    \E id \in ServerIds, remoteAddress \in RemoteAddresses,
       fileExists \in BOOLEAN, tooLarge \in BOOLEAN :
        HandleRequest(id, Request(remoteAddress, fileExists, tooLarge))

SpecServe == InitServing /\ [][ServeNext]_vars

----------------------------------------------------------------------------
(* The commands together with request handling on the servers they start *)

\* one request the subnet filter lets through and one it denies, for a
\* server bound to LanAddr
FrameRequests ==
    {Request(JSString(Addr_10_0_1_42), TRUE, FALSE),
     Request(JSString(Addr_11_0_1_5), TRUE, FALSE)}

\* the number of command invocations in a run with request handling
MaxFrameCalls == 2

FrameNext ==
    \/ /\ Len(calls) < MaxFrameCalls
       /\ \/ \E path \in Paths, ifs \in NetConfigs : GetServer(path, ifs)
          \/ \E path \in Paths : CloseServer(path)
    \/ \E id \in ServerIds : Listening(id)
    \/ \E id \in ServerIds : ProbeResponse(id)
    \/ \E id \in ServerIds : ProbeError(id)
    \/ \E id \in ServerIds : ServerClosed(id)
    \/ \E id \in ServerIds : Connect(id)
    \/ \E id \in ServerIds : Disconnect(id)
    \/ \E id \in ServerIds, request \in FrameRequests : HandleRequest(id, request)

SpecFrame == Init /\ [][FrameNext]_vars

----------------------------------------------------------------------------
(* Properties *)

CallIds == 1..Len(calls)

\* the events of a key's history after its last close
RECURSIVE SinceClose(_)
SinceClose(h) ==
    IF h = <<>> THEN <<>>
    ELSE IF h[Len(h)].ev = "closed" THEN <<>>
    ELSE Append(SinceClose(SubSeq(h, 1, Len(h) - 1)), h[Len(h)])

\* the addresses delivered for a key since its last close
DeliveredSince(h) == {SinceClose(h)[i].address : i \in 1..Len(SinceClose(h))}

\* the servers whose listener is started and has not been told to close
LiveServers(key) ==
    {id \in ServerIds : /\ httpServers[id].state = "listening"
                        /\ getPathKey(httpServers[id].root) = key}

\* C1: in every reachable state at most one live server (listener started,
\* close not initiated) exists per normalized root key.
C1_AtMostOneLiveServerPerKey ==
    \A key \in Keys : Cardinality(LiveServers(key)) <= 1

\* C2: a getServer(P) issued after a getServer(P) completed successfully,
\* with no closeServer(P) in between, is answered at once with the identical
\* {address, port} and starts no listener and no probe.
C2_GetServerIdempotent ==
    \A c \in CallIds :
        (calls[c].cmd = "getServer" /\ DeliveredSince(calls[c].prior) # {})
        => /\ calls[c].status = "done"
           /\ calls[c].server = 0
           /\ calls[c].err.type = "null"
           /\ calls[c].res.type = "object"
           /\ DeliveredSince(calls[c].prior) = {calls[c].res.val}

\* C3: closeServer never fails outwardly: it completes without an error and
\* with the boolean true when an entry existed, false when none existed.
C3_CloseServerResultIsBoolean ==
    \A c \in CallIds :
        (calls[c].cmd = "closeServer" /\ calls[c].status = "done")
        => /\ calls[c].err.type = "null"
           /\ calls[c].res.type = "boolean"
           /\ calls[c].res.val = calls[c].found

\* C4: closeServer on an existing entry completes to its caller without
\* waiting for the socket: while the server it closed still holds its socket
\* (connections draining), the call has already completed.
C4_CloseCompletesBeforeSocketReleased ==
    \A c \in CallIds :
        ( /\ calls[c].cmd = "closeServer"
          /\ calls[c].found
          /\ httpServers[calls[c].server].state = "closing" )
        => calls[c].status = "done"

\* call c is a closeServer that removed the entry of key, and no getServer
\* for key has been issued after it up to (not including) call d
ClosedAndNoGetUntil(key, c, d) ==
    /\ calls[c].cmd = "closeServer"
    /\ calls[c].found
    /\ getPathKey(calls[c].path) = key
    /\ \A g \in (c + 1)..(d - 1) :
         ~(calls[g].cmd = "getServer" /\ getPathKey(calls[g].path) = key)

\* C5: once closeServer(P) has removed an entry, and as long as no further
\* getServer(P) is issued, P has no entry (so the next getServer(P) starts a
\* new instance instead of being answered from an entry), and a further
\* closeServer(P) reports that no server existed.
C5_CloseThenRecreate ==
    \A key \in Keys : \A c \in CallIds :
        /\ ClosedAndNoGetUntil(key, c, Len(calls) + 1) => ~Truthy(_servers[key])
        /\ \A d \in (c + 1)..Len(calls) :
             (ClosedAndNoGetUntil(key, c, d) /\ getPathKey(calls[d].path) = key)
             => ~calls[d].found

\* an address is in 169.254.0.0/16: first octet 169 and second octet 254
IsLinkLocal(address) ==
    LET octets == Split(address, ".")
    IN  /\ Len(octets) >= 2
        /\ octets[1] = <<"1", "6", "9">>
        /\ octets[2] = <<"2", "5", "4">>

\* an external address in the sense of the glossary: IPv4, not internal,
\* not link-local
Qualifies(addr) ==
    /\ addr.family = "IPv4"
    /\ ~addr.internal
    /\ ~IsLinkLocal(addr.address)

\* the qualifying addresses of an interface table, in enumeration order
RECURSIVE QualifyingOf(_)
QualifyingOf(ifs) ==
    IF ifs = <<>> THEN <<>>
    ELSE LET q == SelectSeq(Head(ifs), Qualifies)
         IN  [i \in 1..Len(q) |-> q[i].address] \o QualifyingOf(Tail(ifs))

\* this step is a getServer invocation that found no entry for its key
CreatingStep ==
    /\ Len(calls') = Len(calls) + 1
    /\ calls'[Len(calls')].cmd = "getServer"
    /\ ~calls'[Len(calls')].found

\* C6: a getServer that finds no entry while the interfaces hold no
\* qualifying external IPv4 address completes at once with an error and no
\* address, starts no listener and leaves the registry as it was.
C6_NoInterfaceFails ==
    [][ (CreatingStep /\ QualifyingOf(interfaces') = <<>>)
        => /\ calls'[Len(calls')].status = "done"
           /\ calls'[Len(calls')].cb = 1
           /\ Truthy(calls'[Len(calls')].err)
           /\ calls'[Len(calls')].res.type = "null"
           /\ httpServers' = httpServers
           /\ _servers' = _servers ]_vars

\* a getServer has failed for want of an address while another root has a
\* registered, listening server
C6_Witness ==
    /\ calls # <<>>
    /\ \E key \in Keys :
         /\ key # getPathKey(calls[Len(calls)].path)
         /\ Truthy(_servers[key])
    /\ calls[Len(calls)].cmd = "getServer"
    /\ ~calls[Len(calls)].found
    /\ QualifyingOf(interfaces) = <<>>
    /\ calls[Len(calls)].err.type = "string"
    /\ calls[Len(calls)].err.val = ERR_NO_ADDRESS.val

\* C7: when the warm-up GET ends in an error, getServer completes with an
\* error, no entry refers to the server, and its listener is released.
C7_WarmupFailureReleasesListener ==
    \A id \in ServerIds :
        httpServers[id].probe = "error"
        => /\ calls[CreatorOf(id)].status = "done"
           /\ Truthy(calls[CreatorOf(id)].err)
           /\ \A key \in Keys :
                Truthy(_servers[key]) => _servers[key].server # id
           /\ httpServers[id].state # "listening"

\* C8: the addresses delivered for a root by successful getServer
\* completions differ only across a closeServer that removed the entry.
C8_AddressStable ==
    \A key \in Keys : Cardinality(DeliveredSince(history[key])) <= 1

\* the /24 rule of the subnet filter: both addresses have at least three
\* dot-separated components and the first three are equal
SameFirstThreeOctets(a, b) ==
    LET x == Split(a, ".")
        y == Split(b, ".")
    IN  /\ Len(x) >= 3
        /\ Len(y) >= 3
        /\ \A i \in 1..3 : x[i] = y[i]

\* the client address of a request is available
HasClientAddress(request) ==
    /\ request.remoteAddress.type = "string"
    /\ request.remoteAddress.val # <<>>

\* C9: a request goes on to the next stage iff its client address is
\* available and its first three octets equal those of the server's bound
\* address; otherwise the response is 403 "Forbidden" and nothing after the
\* filter sees the request.
C9_SubnetFilter ==
    response.statusCode # 0
    => LET allowed ==
               /\ HasClientAddress(response.request)
               /\ SameFirstThreeOctets(response.request.remoteAddress.val,
                                       httpServers[response.server].host)
       IN  /\ allowed
              => /\ Len(response.stages) >= 2
                 /\ response.stages[2] = "static"
                 /\ response.statusCode # 403
           /\ ~allowed
              => /\ response.statusCode = 403
                 /\ response.body = "Forbidden"
                 /\ response.stages = <<"rejectOffSubnetRequests">>

\* a request whose first two octets match and whose third differs was denied
C9_Witness ==
    /\ response.statusCode = 403
    /\ HasClientAddress(response.request)
    /\ LET x == Split(response.request.remoteAddress.val, ".")
           y == Split(httpServers[response.server].host, ".")
       IN  Len(x) = 4 /\ x[1] = y[1] /\ x[2] = y[2] /\ x[3] # y[3]

\* C10: the server is bound to the first address in enumeration order that
\* is IPv4, not internal and not in 169.254.0.0/16, and getServer fails with
\* the no-address error exactly when there is no such address.
C10_FirstQualifyingAddress ==
    (calls # <<>> /\ ~calls[1].found)
    => LET qualifying == QualifyingOf(interfaces)
       IN  /\ (qualifying = <<>>) <=> (calls[1].status = "done")
           /\ qualifying # <<>>
              => /\ calls[1].server # 0
                 /\ httpServers[calls[1].server].host = qualifying[1]

\* paths that do not end in a separator
PlainPaths == {<<>>, PathA, PathB, <<"/", "a", "/", "b">>, <<"/", "a", "/", "/", "b">>}

\* this step is a new invocation, with path p
InvokedWith(p) ==
    /\ Len(calls') = Len(calls) + 1
    /\ calls'[Len(calls')].path = p

\* this step completes, without an error, a getServer issued with path p
RegisteredFor(p) ==
    \E c \in CallIds :
        /\ calls[c].cmd = "getServer"
        /\ calls[c].path = p
        /\ calls[c].status = "pending"
        /\ calls'[c].status = "done"
        /\ calls'[c].err.type = "null"

\* C11: for a path p not ending in a separator, p and p + "/" have the same
\* key and p + "//" has not; an invocation with p + "/" looks up, answers
\* from, registers and closes the entry of p.
C11_TrailingSeparator ==
    [][ /\ \A p \in PlainPaths :
             /\ getPathKey(p \o <<"/">>) = getPathKey(p)
             /\ getPathKey(p \o <<"/", "/">>) # getPathKey(p)
        /\ LET new == calls'[Len(calls')]
               key == getPathKey(PathA)
           IN  /\ InvokedWith(PathASlash)
                  => /\ new.found = Truthy(_servers[key])
                     /\ (new.cmd = "getServer" /\ new.found)
                        => /\ new.res.val = _servers[key].address
                           /\ httpServers' = httpServers
                     /\ (new.cmd = "closeServer" /\ new.found)
                        => /\ ~Truthy(_servers'[key])
                           /\ new.server = _servers[key].server
                           /\ httpServers'[new.server].state = "closing"
               /\ RegisteredFor(PathASlash) => Truthy(_servers'[key]) ]_vars

\* closeServer("/a/") has closed the server that getServer("/a") created
C11_Witness ==
    \E c \in CallIds :
        /\ calls[c].cmd = "closeServer"
        /\ calls[c].path = PathASlash
        /\ calls[c].found
        /\ httpServers[calls[c].server].root = PathA

\* a getServer invocation that has completed with an address
Succeeded(c) ==
    /\ calls[c].cmd = "getServer"
    /\ calls[c].status = "done"
    /\ calls[c].err.type = "null"

\* C12: every successful getServer completion delivers an object with the
\* three fields address, family and port, and family is "IPv4".
C12_AddressHasFamily ==
    \A c \in CallIds :
        Succeeded(c)
        => /\ calls[c].res.type = "object"
           /\ DOMAIN calls[c].res.val = {"address", "family", "port"}
           /\ calls[c].res.val.family = "IPv4"

Quiescent == \A c \in CallIds : calls[c].status = "done"

\* the serial executions: an invocation is issued only when every earlier
\* one has completed
SerialNext ==
    \/ Quiescent /\ \E path \in Paths, ifs \in NetConfigs : GetServer(path, ifs)
    \/ Quiescent /\ \E path \in Paths : CloseServer(path)
    \/ \E id \in ServerIds : Listening(id)
    \/ \E id \in ServerIds : ProbeResponse(id)
    \/ \E id \in ServerIds : ProbeError(id)
    \/ \E id \in ServerIds : ServerClosed(id)
    \/ \E id \in ServerIds : Connect(id)
    \/ \E id \in ServerIds : Disconnect(id)

SpecSerial == Init /\ [][SerialNext]_vars

\* what every serial execution leaves behind (an invariant of SpecSerial):
\* the completions for a key since its last close all delivered one address,
\* and every open listener whose probe was answered is the registered server
\* of its key
SerialOutcome ==
    /\ \A key \in Keys : Cardinality(DeliveredSince(history[key])) <= 1
    /\ \A id \in ServerIds :
         (httpServers[id].state = "listening" /\ httpServers[id].probe = "response")
         => /\ Truthy(_servers[getPathKey(httpServers[id].root)])
            /\ _servers[getPathKey(httpServers[id].root)].server = id

\* C14: whatever the interleaving of the continuations, once every
\* invocation has completed the delivered results, the registry and the open
\* listeners are those of some serial execution of the same invocations.
C14_Serializable == Quiescent => SerialOutcome

\* the warm-up GET of server id has received a response
ProbeAnswered(id) == httpServers[id].probe = "response"

\* address is the {address, port} of a server whose warm-up GET was answered
AddressOfAnswered(address) ==
    \E id \in ServerIds :
        /\ ProbeAnswered(id)
        /\ address = AddressOf(httpServers[id].host, httpServers[id].port)

\* C15: an address is delivered to a getServer caller, and an entry is
\* registered, only for a server whose own warm-up GET has received a
\* response; nothing of a server that is still starting or whose probe failed
\* is ever delivered or registered.
C15_ReadinessGate ==
    /\ \A key \in Keys :
         Truthy(_servers[key])
         => /\ ProbeAnswered(_servers[key].server)
            /\ _servers[key].address =
                 AddressOf(httpServers[_servers[key].server].host,
                           httpServers[_servers[key].server].port)
    /\ \A key \in Keys : \A i \in 1..Len(history[key]) :
         history[key][i].ev = "delivered"
         => /\ ProbeAnswered(history[key][i].server)
            /\ history[key][i].address =
                 AddressOf(httpServers[history[key][i].server].host,
                           httpServers[history[key][i].server].port)
    /\ \A c \in CallIds :
         Succeeded(c) => AddressOfAnswered(calls[c].res.val)

\* an entry is registered, one caller was answered by the probe's callback
\* and another from the entry, while another server's probe has failed
C15_Witness ==
    /\ \E key \in Keys : Truthy(_servers[key])
    /\ \E c \in CallIds : Succeeded(c) /\ calls[c].found
    /\ \E c \in CallIds : Succeeded(c) /\ ~calls[c].found
    /\ \E id \in ServerIds : httpServers[id].probe = "error"

\* the phase of a server instance, read from the state of its http.Server
\* and of its warm-up GET
Phase(srv) ==
    IF srv.state = "none" THEN "None"
    ELSE IF srv.state = "closing" THEN "Closing"
    ELSE IF srv.state = "closed" THEN "Closed"
    ELSE IF srv.probe = "response" THEN "Ready"
    ELSE IF srv.probe = "error" THEN "Failed"
    ELSE "Starting"

\* the transitions of the lifecycle
PhaseSteps ==
    {<<"None", "Starting">>, <<"Starting", "Ready">>, <<"Starting", "Failed">>,
     <<"Ready", "Closing">>, <<"Closing", "Closed">>}

\* the closeServer invocations that called close() on server id
CloseCalls(id) ==
    {c \in CallIds : calls[c].cmd = "closeServer" /\ calls[c].found
                     /\ calls[c].server = id}

\* C16: a server instance moves only Starting -> Ready or Starting -> Failed,
\* then Ready -> Closing -> Closed, never back into Starting; close() is
\* initiated at most once per instance and only on a Ready instance.
C16_Lifecycle ==
    [][ /\ \A id \in ServerIds :
             \/ Phase(httpServers'[id]) = Phase(httpServers[id])
             \/ <<Phase(httpServers[id]), Phase(httpServers'[id])>> \in PhaseSteps
        /\ \A id \in ServerIds :
             /\ Cardinality(CloseCalls(id)') <= 1
             /\ CloseCalls(id)' # CloseCalls(id)
                => Phase(httpServers[id]) = "Ready" ]_vars

\* one instance was closed after serving and another failed its probe
C16_Witness ==
    /\ \E id \in ServerIds : /\ Phase(httpServers[id]) = "Closed"
                             /\ Cardinality(CloseCalls(id)) = 1
    /\ \E id \in ServerIds : Phase(httpServers[id]) = "Failed"

\* stage a ran before position i of the stages a request went through
RanBefore(stages, a, i) == \E j \in 1..(i - 1) : stages[j] = a

\* C17: every request passes the subnet filter, then the size-limit guard,
\* then static-file serving: no request reaches static-file serving without
\* having passed both the subnet filter and the size-limit guard before.
C17_PipelineOrder ==
    response.statusCode # 0
    => \A i \in 1..Len(response.stages) :
         /\ response.stages[i] = "static"
            => /\ RanBefore(response.stages, "rejectOffSubnetRequests", i)
               /\ RanBefore(response.stages, "limit", i)
         /\ response.stages[i] = "limit"
            => RanBefore(response.stages, "rejectOffSubnetRequests", i)

\* the keys of the invocations a step issues or completes
StepKeys ==
    {getPathKey(calls'[c].path) :
       c \in {d \in 1..Len(calls') : d > Len(calls) \/ calls'[d] # calls[d]}}

\* the step is a closeServer invocation that found no entry
ClosesMissing ==
    /\ Len(calls') = Len(calls) + 1
    /\ calls'[Len(calls')].cmd = "closeServer"
    /\ ~calls'[Len(calls')].found

\* C18: closeServer on a root without an entry leaves the whole registry
\* unchanged; a step of getServer(P) or closeServer(P) changes no entry of
\* another key; handling an HTTP request, allowed or denied, never changes
\* the registry.
C18_Frame ==
    [][ /\ ClosesMissing => _servers' = _servers
        /\ \A key \in Keys \ StepKeys : _servers'[key] = _servers[key]
        /\ response' # response => _servers' = _servers ]_vars

\* one root is registered, a closeServer for another root has found nothing,
\* and the last request was denied with 403
C18_Witness ==
    \E c \in CallIds :
        /\ calls[c].cmd = "closeServer" /\ ~calls[c].found
        /\ \E key \in Keys \ {getPathKey(calls[c].path)} : Truthy(_servers[key])
        /\ response.statusCode = 403

\* invocation c is suspended: a getServer whose warm-up GET is unanswered, or
\* a closeServer whose server still has a connection
Suspended(c) ==
    /\ calls[c].status = "pending"
    /\ \/ /\ calls[c].cmd = "getServer"
          /\ httpServers[calls[c].server].probe = "sent"
       \/ /\ calls[c].cmd = "closeServer"
          /\ httpServers[calls[c].server].connected

\* the keys with a suspended invocation
SuspendedKeys == {getPathKey(calls[c].path) : c \in {d \in CallIds : Suspended(d)}}

\* the paths of another root than every suspended invocation's, when there
\* is one
OtherPaths ==
    IF SuspendedKeys = {} THEN {}
    ELSE {q \in Paths : getPathKey(q) \notin SuspendedKeys}

\* C19: while a getServer(P) waits for its warm-up GET or a closeServer(P)
\* waits for connections to end, getServer and closeServer for any other
\* root Q can be issued and each of their continuations can run; only the
\* suspended invocation's own completion waits.
C19_NonBlocking ==
    /\ \A q \in OtherPaths :
         /\ Len(calls) < MaxCalls => ENABLED CloseServer(q)
         /\ (Len(calls) < MaxCalls /\ Created < MaxServers)
            => \A ifs \in NetConfigs : ENABLED GetServer(q, ifs)
    /\ \A id \in ServerIds :
         httpServers[id].root \in OtherPaths
         => /\ httpServers[id].state = "binding" => ENABLED Listening(id)
            /\ httpServers[id].probe = "sent"
               => ENABLED ProbeResponse(id) /\ ENABLED ProbeError(id)
            /\ (httpServers[id].state = "closing" /\ ~httpServers[id].connected)
               => ENABLED ServerClosed(id)

\* an invocation is suspended while invocations for another root, issued
\* after it, have created a server and closed it again
C19_Witness ==
    \E c \in CallIds :
        /\ Suspended(c)
        /\ \E g, d \in CallIds :
             /\ c < g /\ g < d
             /\ getPathKey(calls[g].path) # getPathKey(calls[c].path)
             /\ getPathKey(calls[d].path) = getPathKey(calls[g].path)
             /\ Succeeded(g) /\ ~calls[g].found
             /\ calls[d].cmd = "closeServer" /\ calls[d].found
             /\ calls[d].status = "done"

\* the listeners that have been started and have not been told to close
OpenListeners == {id \in ServerIds : httpServers[id].state = "listening"}

\* C20: every listener that has been started and has not had close
\* initiated is either still in startup, its warm-up GET outstanding, or is
\* the server of the registry entry of its root's key, so closeServer can
\* reach it.
C20_NoOrphanedListeners ==
    \A id \in OpenListeners :
        \/ httpServers[id].probe = "sent"
        \/ /\ Truthy(_servers[getPathKey(httpServers[id].root)])
           /\ _servers[getPathKey(httpServers[id].root)].server = id

====
